---- MODULE Spec2Model ----
(***************************************************************************)
(* Model of src/src/terminal.rs: the Terminal facade (attribute capture,   *)
(* raw mode, window-size resolution, output buffer, key decoder, Drop).    *)
(*                                                                         *)
(* The operating system is part of the state: the attributes applied to    *)
(* the terminal (os_termios), the bytes the terminal received (tty_out),   *)
(* the answer of the TIOCGWINSZ ioctl (ws_ok, ws) and the standard input   *)
(* (input).  The input is a sequence of read outcomes fixed in the initial *)
(* state: a byte, a read that returns no data (a VTIME timeout), or a      *)
(* failing read.  A read on the exhausted input returns no data for ever:  *)
(* that is the ended stream.                                               *)
(***************************************************************************)
EXTENDS Integers, Sequences, FiniteSets, TLC

VARIABLES
    pc,            \* position of the program (see the actions)
    orig_termios,  \* Terminal.orig_termios
    curr_termios,  \* Terminal.curr_termios
    num_rows,      \* Terminal.num_rows
    num_cols,      \* Terminal.num_cols
    term_buffer,   \* Terminal.term_buffer, a sequence of bytes
    key_buffer,    \* Terminal.key_buffer, a Vec<u8>: the last element is the top
    os_termios,    \* attributes the OS holds for the terminal
    attr0,         \* attributes the OS held when the program started
    ws_ok,         \* whether ioctl(TIOCGWINSZ) succeeds
    ws,            \* the winsize the ioctl fills in: <<ws_row, ws_col>>
    input,         \* standard input: the read outcomes still to come
    input0,        \* the standard input the read_key calls started from
    tty_out,       \* bytes the terminal has received
    writes,        \* the sequences handed to Terminal::write, in call order
    key,           \* read_key: the source byte being decoded
    result,        \* what the last finished read_key call returned
    keys,          \* the Keys returned by the read_key calls so far, in order
    calls,         \* number of read_key calls made by the caller
    depth,         \* read_key: nesting depth of the running call (1 = the caller's)
    reads,         \* number of reads of standard input issued by the running read_key call
    io_failed,     \* whether a read of standard input failed during the running read_key call
    polls,         \* reads of the ended standard input issued by the running read_key call
    ops,           \* number of append and flush calls made by the caller
    appended,      \* the texts handed to append, concatenated in call order
    flushed,       \* what the flush calls handed to Terminal::write, concatenated
    restore        \* the set_attr call of drop: "none" before it, then "ok" or "err"

vars == << pc, orig_termios, curr_termios, num_rows, num_cols, term_buffer,
           key_buffer, os_termios, attr0, ws_ok, ws, input, input0, tty_out,
           writes, key, result, keys, calls, depth, reads, io_failed,
           polls, ops, appended, flushed, restore >>

(***************************************************************************)
(* Bounds of the model.                                                    *)
(***************************************************************************)
MaxLen == 3        \* length of the general input sequences
MaxCalls == 3      \* read_key calls the caller makes
MaxPolls == 2      \* reads of the ended input one read_key call is followed through
MaxOps == 2        \* append and flush calls the caller makes

(***************************************************************************)
(* Bytes.                                                                  *)
(***************************************************************************)
ESC == 27
CR == 13
DEL == 127
LBRACKET == 91
TILDE == 126
SEMICOLON == 59
CH_A == 65
CH_B == 66
CH_C == 67
CH_D == 68
CH_F == 70
CH_H == 72
CH_O == 79
CH_R == 82
CH_1 == 49
CH_3 == 51
CH_4 == 52
CH_5 == 53
CH_6 == 54
CH_7 == 55
CH_8 == 56
CH_a == 97

Byte == 0..255

\* the slots of the lookahead window: take(3)
Window == 3

(***************************************************************************)
(* libc flag masks and c_cc indices (Linux values).                        *)
(***************************************************************************)
ECHO == 8
ICANON == 2
ISIG == 1
IEXTEN == 32768
IXON == 1024
ICRNL == 256
BRKINT == 2
INPCK == 16
ISTRIP == 32
OPOST == 1
CS8 == 48
VMIN == 6
VTIME == 5
VINTR == 0

RECURSIVE BitAndNot(_, _)
\* a & !m on unsigned words
BitAndNot(a, m) ==
    IF a = 0 THEN 0
    ELSE (a % 2) * (1 - (m % 2)) + 2 * BitAndNot(a \div 2, m \div 2)

RECURSIVE BitOr(_, _)
\* a | m on unsigned words
BitOr(a, m) ==
    IF a = 0 THEN m
    ELSE IF m = 0 THEN a
    ELSE (IF (a % 2) + (m % 2) > 0 THEN 1 ELSE 0) + 2 * BitOr(a \div 2, m \div 2)

RECURSIVE BitAnd(_, _)
\* a & m on unsigned words
BitAnd(a, m) ==
    IF a = 0 \/ m = 0 THEN 0
    ELSE (a % 2) * (m % 2) + 2 * BitAnd(a \div 2, m \div 2)

\* the c_cc entries the model follows
CcIdx == {VINTR, VTIME, VMIN}

\* a libc termios value
MkTermios(i, o, c, l, cc) ==
    [c_iflag |-> i, c_oflag |-> o, c_cflag |-> c, c_lflag |-> l, c_cc |-> cc]

\* mem::zeroed::<Termios>()
ZeroTermios == MkTermios(0, 0, 0, 0, [x \in CcIdx |-> 0])

(***************************************************************************)
(* Attribute Controller: TermiosAttrExt.                                   *)
(***************************************************************************)
LFlagMask == BitOr(BitOr(ECHO, ICANON), BitOr(ISIG, IEXTEN))
IFlagMask == BitOr(BitOr(BitOr(IXON, ICRNL), BitOr(BRKINT, INPCK)), ISTRIP)

\* the value enable_raw_mode leaves in self before it calls set_attr
EnableRawMode(t) ==
    [t EXCEPT !.c_lflag = BitAndNot(t.c_lflag, LFlagMask),
              !.c_iflag = BitAndNot(t.c_iflag, IFlagMask),
              !.c_oflag = BitOr(BitAndNot(t.c_oflag, OPOST), CS8),
              !.c_cc = [t.c_cc EXCEPT ![VMIN] = 0, ![VTIME] = 1]]

(***************************************************************************)
(* Read outcomes and Option<u8> values.                                    *)
(***************************************************************************)
OkByte(b) == [kind |-> "Ok", byte |-> b]
NoData == [kind |-> "None", byte |-> 0]
ReadErr == [kind |-> "Err", byte |-> 0]

\* Sequences over S of length at most n
SeqUpTo(S, n) == UNION {[1..m -> S] : m \in 0..n}

Rev(s) == [i \in 1..Len(s) |-> s[Len(s) + 1 - i]]

Min(a, b) == IF a < b THEN a ELSE b

(***************************************************************************)
(* Key and Motion.                                                         *)
(***************************************************************************)
Printable(b) == [kind |-> "Printable", motion |-> "", val |-> b]
Control(c) == [kind |-> "Control", motion |-> "", val |-> c]
Move(m) == [kind |-> "Move", motion |-> m, val |-> 0]
KeyDelete == [kind |-> "Delete", motion |-> "", val |-> 0]
KeyBackspace == [kind |-> "Backspace", motion |-> "", val |-> 0]
KeyNewline == [kind |-> "Newline", motion |-> "", val |-> 0]
KeyEscape == [kind |-> "Escape", motion |-> "", val |-> 0]
NoKey == [kind |-> "", motion |-> "", val |-> 0]

\* Result<Key>
OkKey(k) == [ok |-> TRUE, key |-> k]
IoError == [ok |-> FALSE, key |-> NoKey]
NoResult == [ok |-> TRUE, key |-> NoKey]

\* the arm of the control bytes stands before the arm of '\r'
DecodeByteControlFirst(k) ==
    IF k = DEL THEN KeyBackspace
    ELSE IF k < 32 THEN Control((k + 64) % 256)
    ELSE IF k = CR THEN KeyNewline
    ELSE Printable(k)

\* read_key, the arm of a byte that is not ESC; key + 64 is u8 arithmetic
DecodeByte(k) ==
    IF k = DEL THEN KeyBackspace
    ELSE IF k = CR THEN KeyNewline
    ELSE IF k < 32 THEN Control((k + 64) % 256)
    ELSE Printable(k)

\* one arm of the match: the window s starts with the bytes a, b
Starts2(s, a, b) ==
    /\ s[1] = OkByte(a)
    /\ s[2] = OkByte(b)

\* one arm of the match: the window s is the bytes a, b, c
Is3(s, a, b, c) ==
    /\ s[1] = OkByte(a)
    /\ s[2] = OkByte(b)
    /\ s[3] = OkByte(c)

MatchArm(k, p) == [matched |-> TRUE, key |-> k, pending |-> p]

\* read_key, the match on seq.as_slice(): the arms in source order
MatchSeq(s) ==
    IF s = <<NoData, NoData, NoData>> THEN MatchArm(KeyEscape, NoData)
    ELSE IF Starts2(s, LBRACKET, CH_A) THEN MatchArm(Move("Up"), s[3])
    ELSE IF Starts2(s, LBRACKET, CH_B) THEN MatchArm(Move("Down"), s[3])
    ELSE IF Starts2(s, LBRACKET, CH_C) THEN MatchArm(Move("Right"), s[3])
    ELSE IF Starts2(s, LBRACKET, CH_D) THEN MatchArm(Move("Left"), s[3])
    ELSE IF Is3(s, LBRACKET, CH_5, TILDE) THEN MatchArm(Move("PgUp"), NoData)
    ELSE IF Is3(s, LBRACKET, CH_6, TILDE) THEN MatchArm(Move("PgDn"), NoData)
    ELSE IF Is3(s, LBRACKET, CH_1, TILDE) THEN MatchArm(Move("Home"), NoData)
    ELSE IF Is3(s, LBRACKET, CH_7, TILDE) THEN MatchArm(Move("Home"), NoData)
    ELSE IF Is3(s, LBRACKET, CH_O, CH_H) THEN MatchArm(Move("Home"), NoData)
    ELSE IF Starts2(s, LBRACKET, CH_H) THEN MatchArm(Move("Home"), s[3])
    ELSE IF Is3(s, LBRACKET, CH_4, TILDE) THEN MatchArm(Move("End"), NoData)
    ELSE IF Is3(s, LBRACKET, CH_8, TILDE) THEN MatchArm(Move("End"), NoData)
    ELSE IF Is3(s, LBRACKET, CH_O, CH_F) THEN MatchArm(Move("End"), NoData)
    ELSE IF Starts2(s, LBRACKET, CH_F) THEN MatchArm(Move("End"), s[3])
    ELSE IF Is3(s, LBRACKET, CH_3, TILDE) THEN MatchArm(KeyDelete, NoData)
    ELSE [matched |-> FALSE, key |-> NoKey, pending |-> NoData]

(***************************************************************************)
(* Standard input.                                                         *)
(***************************************************************************)
\* io::stdin().bytes().next(): the outcome of one read, and what is left
StdinNext(inp) ==
    IF inp = <<>> THEN [item |-> NoData, rest |-> inp]
    ELSE [item |-> Head(inp), rest |-> Tail(inp)]

RECURSIVE ReadUpToSwallow(_, _)
\* a failing read is taken for a read without data
ReadUpToSwallow(inp, n) ==
    IF n = 0 THEN [items |-> <<>>, rest |-> inp, failed |-> FALSE]
    ELSE LET r == StdinNext(inp)
             t == ReadUpToSwallow(r.rest, n - 1)
         IN [items |-> <<IF r.item.kind = "Err" THEN NoData ELSE r.item>> \o t.items,
             rest |-> t.rest, failed |-> FALSE]

RECURSIVE ReadUpTo(_, _)
\* n successive reads as the lazy take(3) ... collect::<Result<..>> issues
\* them: reading stops behind the first failing read
ReadUpTo(inp, n) ==
    IF n = 0 THEN [items |-> <<>>, rest |-> inp, failed |-> FALSE]
    ELSE LET r == StdinNext(inp)
         IN IF r.item.kind = "Err"
            THEN [items |-> <<r.item>>, rest |-> r.rest, failed |-> TRUE]
            ELSE LET t == ReadUpTo(r.rest, n - 1)
                 IN [items |-> <<r.item>> \o t.items, rest |-> t.rest,
                     failed |-> t.failed]

\* key_buffer.iter().rev().map(|byte| Some(Ok(*byte))): the buffer is read,
\* not drained
PendingItems(kb) == [i \in 1..Len(kb) |-> OkByte(kb[Len(kb) + 1 - i])]

\* seq: the pending bytes chained with fresh reads, three slots taken
Lookahead(kb, inp) ==
    LET pend == SubSeq(PendingItems(kb), 1, Min(Window, Len(kb)))
        fresh == ReadUpTo(inp, Window - Len(pend))
    IN [seq |-> pend \o fresh.items, rest |-> fresh.rest,
        failed |-> fresh.failed, nreads |-> Len(fresh.items)]

\* seq.iter().rev().filter_map(|&k| k), as bytes in pushing order
RECURSIVE PresentBytes(_)
PresentBytes(s) ==
    IF s = <<>> THEN <<>>
    ELSE IF Head(s).kind = "Ok" THEN <<Head(s).byte>> \o PresentBytes(Tail(s))
    ELSE PresentBytes(Tail(s))

\* the replayed bytes are pushed in arrival order, without the rev()
FallbackBufferUnreversed(kb, s) == PresentBytes(s)

\* the unmatched ESC is pushed back on top of the replayed bytes
FallbackBufferWithEsc(kb, s) == PresentBytes(Rev(s)) \o <<ESC>>

\* the absent slots are pushed too, as zero bytes
FallbackBufferKeepAbsent(kb, s) == [i \in 1..Len(s) |-> Rev(s)[i].byte]

\* the replayed bytes are pushed without the clear()
FallbackBufferNoClear(kb, s) == kb \o PresentBytes(Rev(s))

\* the fallback arm: key_buffer.clear(); key_buffer.extend(...)
FallbackBuffer(kb, s) == PresentBytes(Rev(s))

\* the pending byte is not pushed back
PushPendingLost(kb, p) == kb

\* the pending slot is pushed whether or not it holds a byte
PushPendingAlways(kb, p) == Append(kb, p.byte)

\* if let Some(key) = pending { key_buffer.push(key) }
PushPending(kb, p) == IF p.kind = "Ok" THEN Append(kb, p.byte) ELSE kb

(***************************************************************************)
(* Geometry Resolver: WinSizeAttrExt.                                      *)
(***************************************************************************)
BOTRIGHT == <<27, 91, 57, 57, 57, 67, 27, 91, 57, 57, 57, 66>>  \* "\x1b[999C\x1b[999B"
CPR_QUERY == <<27, 91, 54, 110>>                               \* "\x1b[6n"
CRLF == <<13, 10>>                                             \* "\r\n"
CLEAR_SCREEN == <<27, 91, 50, 74>>                             \* "\x1b[2J"
CURSOR_HOME == <<27, 91, 72>>                                  \* "\x1b[H"

\* what libc::write may return for a buffer of n bytes: -1, a short count, n
WriteResults(n) == {-1, n \div 2, n}

\* the bytes of seq that reach the terminal when write returns n
Written(seq, n) == IF n <= 0 THEN <<>> ELSE SubSeq(seq, 1, n)

\* the predicate of take_while in get_cursor_position
TakeWhilePred(item) == item = OkByte(CH_R)

RECURSIVE TakeWhileLen(_)
\* number of leading read outcomes take_while lets through
TakeWhileLen(inp) ==
    IF inp = <<>> THEN 0
    ELSE IF TakeWhilePred(Head(inp)) THEN 1 + TakeWhileLen(Tail(inp))
    ELSE 0

\* cursor_buf: the bytes take_while let through
CursorBuf(inp) == [i \in 1..TakeWhileLen(inp) |-> inp[i].byte]

\* standard input behind the take_while: the outcome that stopped it is consumed
AfterTakeWhile(inp) ==
    LET n == TakeWhileLen(inp)
    IN SubSeq(inp, Min(n + 1, Len(inp)) + 1, Len(inp))

RECURSIVE SplitOn(_, _)
\* slice::split: the pieces of buf between the bytes equal to sep
SplitOn(buf, sep) ==
    IF \A i \in 1..Len(buf) : buf[i] # sep THEN <<buf>>
    ELSE LET k == CHOOSE i \in 1..Len(buf) :
                     /\ buf[i] = sep
                     /\ \A j \in 1..(i - 1) : buf[j] # sep
         IN <<SubSeq(buf, 1, k - 1)>> \o SplitOn(SubSeq(buf, k + 1, Len(buf)), sep)

IsDigit(b) == b >= 48 /\ b <= 57

RECURSIVE DigitsValue(_)
DigitsValue(d) ==
    IF d = <<>> THEN 0
    ELSE 10 * DigitsValue(SubSeq(d, 1, Len(d) - 1)) + (d[Len(d)] - 48)

\* str::from_utf8(buf).ok() and then buf.parse::<usize>().ok(): an optional
\* '+' and at least one decimal digit
ParseUsize(buf) ==
    LET d == IF buf # <<>> /\ buf[1] = 43 THEN Tail(buf) ELSE buf
    IN IF d # <<>> /\ \A i \in 1..Len(d) : IsDigit(d[i])
       THEN [ok |-> TRUE, val |-> DigitsValue(d)]
       ELSE [ok |-> FALSE, val |-> 0]

RECURSIVE ParsedFields(_)
\* the two filter_map stages over the pieces
ParsedFields(pieces) ==
    IF pieces = <<>> THEN <<>>
    ELSE LET r == ParseUsize(Head(pieces))
         IN (IF r.ok THEN <<r.val>> ELSE <<>>) \o ParsedFields(Tail(pieces))

\* get_cursor_position behind its write and print: cursor_buf[2..] panics
\* when cursor_buf is shorter than two bytes
GetCursorPosition(inp) ==
    LET buf == CursorBuf(inp)
    IN IF Len(buf) < 2 THEN [outcome |-> "panic", dims |-> <<>>]
       ELSE LET dims == ParsedFields(SplitOn(SubSeq(buf, 3, Len(buf)), SEMICOLON))
            IN IF Len(dims) # 2 THEN [outcome |-> "err", dims |-> <<>>]
               ELSE [outcome |-> "ok", dims |-> dims]

\* get_window_size: the pair it returns once the probe has returned Ok
WindowSizeResult(w, probe) == <<w[1], w[2]>>

(***************************************************************************)
(* Initial states.                                                         *)
(***************************************************************************)
CookedCc == [x \in CcIdx |-> IF x = VINTR THEN 3 ELSE IF x = VMIN THEN 1 ELSE 0]
OtherCc == [x \in CcIdx |-> IF x = VINTR THEN 3 ELSE IF x = VMIN THEN 4 ELSE 2]

\* a cooked terminal: ICRNL|IXON|IUTF8, OPOST|ONLCR, CS8|CREAD|B38400,
\* ISIG|ICANON|ECHO|ECHOE|ECHOK|IEXTEN|ECHOCTL|ECHOKE
TypicalAttr == MkTermios(17664, 5, 191, 35387, CookedCc)

\* every mask bit of enable_raw_mode occurs set and clear, next to other bits
AttrSets ==
    {MkTermios(i, o, c, l, cc) :
        i \in {17664, 51}, o \in {5, 0, 52}, c \in {191, 175},
        l \in {35387, 16}, cc \in {CookedCc, OtherCc}}

\* read outcomes of the general inputs
SmallItems == {OkByte(ESC), OkByte(LBRACKET), OkByte(CH_A), OkByte(CH_a),
               NoData, ReadErr}

GeneralInputs == SeqUpTo(SmallItems, MaxLen)

\* the inputs the whole-life specification follows
LifeInputs == SeqUpTo(SmallItems, MaxLen - 1)

ToItems(bytes) == [i \in 1..Len(bytes) |-> OkByte(bytes[i])]

\* what a terminal may answer to the probe, and degenerate answers
ReplyInputs ==
    {ToItems(b) : b \in {<<27, 91, 50, 52, 59, 56, 48, 82>>,
                         <<27, 91, 50, 52, 59, 56, 48>>,
                         <<27, 91, 120, 59, 56, 48, 82>>,
                         <<27>>, <<>>, <<82>>, <<82, 82>>, <<82, 82, 82>>,
                         <<82, 82, 49, 59, 50>>, <<50, 52, 59, 56, 48, 82>>}}
    \cup {<<ReadErr>>, <<NoData>>, <<OkByte(CH_R), OkByte(CH_R), ReadErr>>}

InitCommon(a, ok, w, inp) ==
    /\ pc = "init"
    /\ orig_termios = ZeroTermios
    /\ curr_termios = ZeroTermios
    /\ num_rows = 0
    /\ num_cols = 0
    /\ term_buffer = <<>>
    /\ key_buffer = <<>>
    /\ os_termios = a
    /\ attr0 = a
    /\ ws_ok = ok
    /\ ws = w
    /\ input = inp
    /\ input0 = inp
    /\ tty_out = <<>>
    /\ writes = <<>>
    /\ key = 0
    /\ result = NoResult
    /\ keys = <<>>
    /\ calls = 0
    /\ depth = 0
    /\ reads = 0
    /\ io_failed = FALSE
    /\ polls = 0
    /\ ops = 0
    /\ appended = <<>>
    /\ flushed = <<>>
    /\ restore = "none"

\* the direct query is degenerate and the terminal answers the probe
InitGeometry ==
    \E w \in {<<FALSE, <<0, 0>>>>, <<TRUE, <<24, 0>>>>, <<TRUE, <<0, 0>>>>} :
        \E inp \in ReplyInputs : InitCommon(TypicalAttr, w[1], w[2], inp)

\* the direct query answers and keys arrive
InitInputs ==
    \E inp \in LifeInputs :
        InitCommon(TypicalAttr, TRUE, <<40, 120>>, inp)

\* the attribute sets the terminal may start with
InitAttrs ==
    \E a \in AttrSets :
        InitCommon(a, TRUE, <<40, 120>>, <<OkByte(CH_a)>>)

Init == InitGeometry \/ InitInputs \/ InitAttrs

(***************************************************************************)
(* Terminal::new, make_raw, new_raw, Drop.                                 *)
(***************************************************************************)
fieldVars == << orig_termios, curr_termios, term_buffer, key_buffer >>
envVars == << attr0, ws_ok, ws, input0, restore >>
keyVars == << key, result, keys, calls, depth, reads, io_failed, polls >>
bufVars == << ops, appended, flushed >>

\* the probe is taken when the direct query succeeds
NeedsProbeInverted(ok, w) == ok \/ w[2] = 0

\* ioctl(STDOUT_FILENO, TIOCGWINSZ, &mut ws) == -1 || ws.ws_col == 0
NeedsProbe(ok, w) == ~ok \/ w[2] = 0

\* get_window_size up to the probe
GetWindowSize ==
    /\ pc = "init"
    /\ IF NeedsProbe(ws_ok, ws)
       THEN \E n \in WriteResults(Len(BOTRIGHT)) :
                /\ tty_out' = tty_out \o Written(BOTRIGHT, n)
                /\ writes' = Append(writes, BOTRIGHT)
                /\ pc' = IF n # Len(BOTRIGHT) THEN "failed" ELSE "probe"
                /\ UNCHANGED << num_rows, num_cols >>
       ELSE /\ num_rows' = ws[1]
            /\ num_cols' = ws[2]
            /\ pc' = "getattr"
            /\ UNCHANGED << tty_out, writes >>
    /\ UNCHANGED << fieldVars, envVars, keyVars, bufVars, os_termios, input >>

\* get_cursor_position and the return of get_window_size behind it
CursorProbe ==
    /\ pc = "probe"
    /\ \E n \in WriteResults(Len(CPR_QUERY)), printed \in BOOLEAN :
        LET r == GetCursorPosition(input)
            size == WindowSizeResult(ws, r.dims)
        IN /\ writes' = Append(writes, CPR_QUERY)
           /\ tty_out' = tty_out \o Written(CPR_QUERY, n)
                            \o (IF printed THEN CRLF ELSE <<>>)
           /\ input' = IF printed THEN AfterTakeWhile(input) ELSE input
           /\ pc' = IF ~printed THEN "new_panicked"
                    ELSE IF r.outcome = "panic" THEN "new_panicked"
                    ELSE IF r.outcome = "err" THEN "failed"
                    ELSE "getattr"
           /\ num_rows' = IF printed /\ r.outcome = "ok" THEN size[1] ELSE num_rows
           /\ num_cols' = IF printed /\ r.outcome = "ok" THEN size[2] ELSE num_cols
    /\ UNCHANGED << fieldVars, envVars, keyVars, bufVars, os_termios >>

\* Termios::get_attr and the construction of Self in Terminal::new
GetAttr ==
    /\ pc = "getattr"
    /\ \E ok \in BOOLEAN :
        IF ok
        THEN /\ orig_termios' = os_termios
             /\ curr_termios' = os_termios
             /\ term_buffer' = <<>>
             /\ key_buffer' = <<>>
             /\ pc' = "constructed"
        ELSE /\ pc' = "failed"
             /\ UNCHANGED fieldVars
    /\ UNCHANGED << num_rows, num_cols, envVars, keyVars, bufVars, os_termios,
                    input, tty_out, writes >>

\* raw mode is entered on the captured attributes too
AfterMakeRawBoth(o, c) == <<EnableRawMode(o), EnableRawMode(c)>>

\* make_raw: the fields <<orig_termios, curr_termios>> behind enable_raw_mode
AfterMakeRaw(o, c) == <<o, EnableRawMode(c)>>

\* term.make_raw()? in new_raw: tcsetattr may fail, and then term is dropped
MakeRaw ==
    /\ pc = "constructed"
    /\ orig_termios' = AfterMakeRaw(orig_termios, curr_termios)[1]
    /\ curr_termios' = AfterMakeRaw(orig_termios, curr_termios)[2]
    /\ \E ok \in BOOLEAN :
        IF ok
        THEN /\ os_termios' = curr_termios'
             /\ pc' = "ready"
        ELSE /\ os_termios' = os_termios
             /\ pc' = "raw_failed"
    /\ UNCHANGED << num_rows, num_cols, term_buffer, key_buffer, envVars,
                    keyVars, bufVars, input, tty_out, writes >>

\* the sequences drop hands to Terminal::write, in order
TeardownWrites == <<CLEAR_SCREEN, CURSOR_HOME>>

\* drop goes on when the attributes could not be re-applied
TeardownOutcomeIgnored(ok) == "dropped"

\* .expect("Failed to restore terminal state") on the result of set_attr
TeardownOutcome(ok) == IF ok THEN "dropped" ELSE "panicked"

\* drop re-applies the current attributes
TeardownAttrsCurrent(o, c) == c

\* the attributes drop hands to set_attr
TeardownAttrs(o, c) == o

\* impl Drop for Terminal: set_attr(...).expect(...) panics when tcsetattr fails
Drop ==
    /\ pc \in {"ready", "raw_failed"}
    /\ \E n1 \in WriteResults(Len(TeardownWrites[1])),
          n2 \in WriteResults(Len(TeardownWrites[2])), ok \in BOOLEAN :
        /\ tty_out' = tty_out \o Written(TeardownWrites[1], n1)
                              \o Written(TeardownWrites[2], n2)
        /\ writes' = writes \o TeardownWrites
        /\ os_termios' = IF ok
                         THEN TeardownAttrs(orig_termios, curr_termios)
                         ELSE os_termios
        /\ restore' = IF ok THEN "ok" ELSE "err"
        /\ pc' = TeardownOutcome(ok)
    /\ UNCHANGED << fieldVars, num_rows, num_cols, attr0, ws_ok, ws, input0,
                    keyVars, bufVars, input >>

(***************************************************************************)
(* Terminal::read_key.                                                     *)
(***************************************************************************)
\* the caller calls read_key
CallReadKey ==
    /\ pc = "ready"
    /\ calls < MaxCalls
    /\ pc' = "source"
    /\ calls' = calls + 1
    /\ depth' = 1
    /\ reads' = 0
    /\ polls' = 0
    /\ io_failed' = FALSE
    /\ result' = NoResult
    /\ UNCHANGED << fieldVars, num_rows, num_cols, envVars, bufVars, os_termios,
                    input, tty_out, writes, key, keys >>

\* the source byte k is at hand: ESC opens the lookahead, any other byte is
\* decoded and returned
Dispatch(k) ==
    /\ key' = k
    /\ IF k = ESC
       THEN /\ pc' = "escape"
            /\ UNCHANGED << result, keys >>
       ELSE /\ pc' = "ready"
            /\ result' = OkKey(DecodeByte(k))
            /\ keys' = Append(keys, DecodeByte(k))

\* the source byte is popped from the pushback buffer
SourcePop ==
    /\ pc = "source"
    /\ key_buffer # <<>>
    /\ key_buffer' = SubSeq(key_buffer, 1, Len(key_buffer) - 1)
    /\ Dispatch(key_buffer[Len(key_buffer)])
    /\ UNCHANGED << orig_termios, curr_termios, term_buffer, num_rows, num_cols,
                    envVars, bufVars, os_termios, input, tty_out, writes,
                    calls, depth, reads, io_failed, polls >>

\* one turn of repeat_with(read_key).skip_while(|c| c.is_none()): a read that
\* returns no data is repeated, a byte is the source byte, a failure returns
SourceRead ==
    /\ pc = "source"
    /\ key_buffer = <<>>
    /\ input # <<>> \/ polls < MaxPolls
    /\ LET r == StdinNext(input)
       IN /\ input' = r.rest
          /\ reads' = reads + 1
          /\ polls' = IF input = <<>> THEN polls + 1 ELSE polls
          /\ io_failed' = (io_failed \/ r.item.kind = "Err")
          /\ IF r.item.kind = "None"
             THEN UNCHANGED << pc, key, result, keys >>
             ELSE IF r.item.kind = "Err"
             THEN /\ pc' = "ready"
                  /\ result' = IoError
                  /\ UNCHANGED << key, keys >>
             ELSE Dispatch(r.item.byte)
    /\ UNCHANGED << fieldVars, num_rows, num_cols, envVars, bufVars, os_termios,
                    tty_out, writes, calls, depth >>

\* the ESC arm: the lookahead window, the match, and the fallback that
\* replaces the pushback buffer and re-enters read_key
Escape ==
    /\ pc = "escape"
    /\ LET la == Lookahead(key_buffer, input)
           consumed == SubSeq(input, 1, Len(input) - Len(la.rest))
           m == MatchSeq(la.seq)
       IN /\ input' = la.rest
          /\ reads' = reads + la.nreads
          /\ io_failed' = (io_failed \/ \E i \in 1..Len(consumed) :
                                              consumed[i].kind = "Err")
          /\ IF la.failed
             THEN /\ pc' = "ready"
                  /\ result' = IoError
                  /\ UNCHANGED << key_buffer, keys, depth >>
             ELSE IF m.matched
             THEN /\ pc' = "ready"
                  /\ result' = OkKey(m.key)
                  /\ keys' = Append(keys, m.key)
                  /\ key_buffer' = PushPending(key_buffer, m.pending)
                  /\ UNCHANGED depth
             ELSE /\ pc' = "source"
                  /\ key_buffer' = FallbackBuffer(key_buffer, la.seq)
                  /\ depth' = depth + 1
                  /\ UNCHANGED << result, keys >>
    /\ UNCHANGED << orig_termios, curr_termios, term_buffer, num_rows, num_cols,
                    envVars, bufVars, os_termios, tty_out, writes, key, calls,
                    polls >>

(***************************************************************************)
(* Terminal::append, Terminal::flush.                                      *)
(***************************************************************************)
Texts == {<<104>>, <<105, 33>>}

AppendText ==
    /\ pc = "ready"
    /\ ops < MaxOps
    /\ \E t \in Texts :
        /\ term_buffer' = term_buffer \o t
        /\ appended' = appended \o t
    /\ ops' = ops + 1
    /\ UNCHANGED << pc, orig_termios, curr_termios, key_buffer, num_rows,
                    num_cols, envVars, keyVars, os_termios, input, tty_out,
                    writes, flushed >>

\* flush leaves the buffer as it was
AfterFlushKept(buf) == buf

\* self.term_buffer.clear()
AfterFlush(buf) == <<>>

\* flush: the result of Terminal::write is dropped and the buffer cleared
Flush ==
    /\ pc = "ready"
    /\ ops < MaxOps
    /\ \E n \in WriteResults(Len(term_buffer)) :
        tty_out' = tty_out \o Written(term_buffer, n)
    /\ writes' = Append(writes, term_buffer)
    /\ flushed' = flushed \o term_buffer
    /\ term_buffer' = AfterFlush(term_buffer)
    /\ ops' = ops + 1
    /\ UNCHANGED << pc, orig_termios, curr_termios, key_buffer, num_rows,
                    num_cols, envVars, keyVars, os_termios, input, appended >>

(***************************************************************************)
(* Specifications.                                                         *)
(***************************************************************************)
Next ==
    \/ GetWindowSize
    \/ CursorProbe
    \/ GetAttr
    \/ MakeRaw
    \/ Drop
    \/ CallReadKey
    \/ SourcePop
    \/ SourceRead
    \/ Escape
    \/ AppendText
    \/ Flush

\* the whole life of a Terminal made by new_raw
Spec == Init /\ [][Next]_vars

\* bytes of the escape sequence table, and bytes outside it
TableBytes == {LBRACKET, CH_A, CH_B, CH_C, CH_D, CH_F, CH_H, CH_O, CH_1, CH_3,
               CH_4, CH_5, CH_6, CH_7, CH_8, TILDE}

EscInputs ==
    {<<OkByte(ESC)>> \o ToItems(w) :
        w \in SeqUpTo(TableBytes \cup {ESC, CR, CH_a}, Window)}

ByteInputs == {<<OkByte(b)>> : b \in Byte}

\* a failing read behind a full lookahead window
ErrInputs ==
    {<<OkByte(ESC)>> \o w \o <<ReadErr>> :
        w \in [1..Window -> SmallItems \ {ReadErr}]}

\* bytes that arrive behind a full lookahead window
ReplayInputs ==
    {<<OkByte(ESC)>> \o ToItems(w) \o ToItems(t) :
        w \in [1..Window -> {ESC, LBRACKET, CH_A, CH_a}],
        t \in SeqUpTo({ESC, CR, CH_a}, 2) \ {<<>>}}

KeyInputs ==
    EscInputs \cup ByteInputs \cup GeneralInputs \cup ErrInputs
              \cup ReplayInputs

\* inputs without read failure that open with ESC, for the runs checked
\* under fairness: any other source byte is returned in the step that
\* obtains it
FairItems == {OkByte(ESC), OkByte(LBRACKET), OkByte(CH_A), NoData}

FairInputs ==
    {<<OkByte(ESC)>> \o w : w \in SeqUpTo(FairItems, MaxLen - 1)}
        \cup {ToItems(<<ESC, ESC, LBRACKET, CH_A>>) \o <<i>> : i \in FairItems}

\* a Terminal that new_raw returned, before its first read_key call
InitKeysOn(inputs) ==
    /\ pc = "ready"
    /\ orig_termios = TypicalAttr
    /\ curr_termios = EnableRawMode(TypicalAttr)
    /\ num_rows = 40
    /\ num_cols = 120
    /\ term_buffer = <<>>
    /\ key_buffer = <<>>
    /\ os_termios = EnableRawMode(TypicalAttr)
    /\ attr0 = TypicalAttr
    /\ ws_ok = TRUE
    /\ ws = <<40, 120>>
    /\ input \in inputs
    /\ input0 = input
    /\ tty_out = <<>>
    /\ writes = <<>>
    /\ key = 0
    /\ result = NoResult
    /\ keys = <<>>
    /\ calls = 0
    /\ depth = 0
    /\ reads = 0
    /\ io_failed = FALSE
    /\ polls = 0
    /\ ops = 0
    /\ appended = <<>>
    /\ flushed = <<>>
    /\ restore = "none"

InitKeys == InitKeysOn(KeyInputs)

InitFairKeys == InitKeysOn(FairInputs)

NextKeys ==
    \/ CallReadKey
    \/ SourcePop
    \/ SourceRead
    \/ Escape

\* the key decoder alone, on every input of KeyInputs
SpecKeys == InitKeys /\ [][NextKeys]_vars

\* read_key is sequential code: once called it keeps taking its next step.
\* Whether the caller calls again is left open.
FairSpecKeys ==
    /\ InitFairKeys
    /\ [][NextKeys]_vars
    /\ WF_vars(SourcePop) /\ WF_vars(SourceRead) /\ WF_vars(Escape)

(***************************************************************************)
(* Properties.                                                             *)
(***************************************************************************)
IsPrefix(s, t) == Len(s) <= Len(t) /\ s = SubSeq(t, 1, Len(s))

\* a read_key call of the caller has returned
Returned == pc = "ready" /\ calls >= 1

\* a Terminal value exists or existed
Constructed ==
    pc \in {"constructed", "raw_failed", "ready", "source", "escape",
            "dropped", "panicked"}

\* the table of recognized sequences: continuation, Key
TwoByteTable ==
    { <<<<LBRACKET, CH_A>>, Move("Up")>>, <<<<LBRACKET, CH_B>>, Move("Down")>>,
      <<<<LBRACKET, CH_C>>, Move("Right")>>, <<<<LBRACKET, CH_D>>, Move("Left")>>,
      <<<<LBRACKET, CH_H>>, Move("Home")>>, <<<<LBRACKET, CH_F>>, Move("End")>> }

ThreeByteTable ==
    { <<<<LBRACKET, CH_5, TILDE>>, Move("PgUp")>>,
      <<<<LBRACKET, CH_6, TILDE>>, Move("PgDn")>>,
      <<<<LBRACKET, CH_1, TILDE>>, Move("Home")>>,
      <<<<LBRACKET, CH_7, TILDE>>, Move("Home")>>,
      <<<<LBRACKET, CH_O, CH_H>>, Move("Home")>>,
      <<<<LBRACKET, CH_4, TILDE>>, Move("End")>>,
      <<<<LBRACKET, CH_8, TILDE>>, Move("End")>>,
      <<<<LBRACKET, CH_O, CH_F>>, Move("End")>>,
      <<<<LBRACKET, CH_3, TILDE>>, KeyDelete>> }

EscSeq(cont) == <<OkByte(ESC)>> \o ToItems(cont)

\* C1: on an empty pushback buffer, ESC plus a continuation of the table and
\* nothing behind it makes the first read_key call return the listed Key and
\* leave the pushback buffer empty; one more byte behind a two-byte
\* continuation gives the same Key and a pushback buffer of that byte alone.
C1_TableDecoded ==
    (Returned /\ calls = 1) =>
        /\ \A e \in TwoByteTable \cup ThreeByteTable :
              input0 = EscSeq(e[1]) =>
                  /\ result = OkKey(e[2])
                  /\ key_buffer = <<>>
        /\ \A e \in TwoByteTable :
              (/\ Len(input0) = 4
               /\ SubSeq(input0, 1, 3) = EscSeq(e[1])
               /\ input0[4].kind = "Ok") =>
                  /\ result = OkKey(e[2])
                  /\ key_buffer = <<input0[4].byte>>

\* C1 witness: ESC [ H a has been decoded: Home, and a is pending
C1_Witness ==
    /\ Returned
    /\ calls = 1
    /\ input0 = EscSeq(<<LBRACKET, CH_H, CH_a>>)
    /\ result = OkKey(Move("Home"))
    /\ key_buffer = <<CH_a>>

\* the Key of one byte decoded on its own: a lone ESC is Escape
SingleKey(b) == IF b = ESC THEN KeyEscape ELSE DecodeByte(b)

\* the input is ESC x y and the window x, y, absent matches no table entry
UnmatchedPair ==
    /\ Len(input0) = 3
    /\ \A i \in 1..3 : input0[i].kind = "Ok"
    /\ input0[1].byte = ESC
    /\ ~MatchSeq(<<input0[2], input0[3], NoData>>).matched

\* the calls return the Keys of x and of y, in this order, each once
ReplaysBoth(x, y) ==
    /\ IsPrefix(keys, <<SingleKey(x), SingleKey(y)>>)
    /\ (Returned /\ calls = 1) =>
          /\ keys = <<SingleKey(x)>>
          /\ key_buffer = <<y>>
    /\ (Returned /\ calls = 2) =>
          /\ keys = <<SingleKey(x), SingleKey(y)>>
          /\ key_buffer = <<>>
          /\ input = <<>>
    /\ ~(Returned /\ calls > 2)

\* C2 as stated: for every ESC x y whose window matches no table entry the
\* successive read_key calls return the Key of x and then the Key of y, each
\* decoded as a single byte, none twice and none lost.
C2_ReplayDecodesEach ==
    UnmatchedPair => ReplaysBoth(input0[2].byte, input0[3].byte)

\* C2 amended: the same for x other than ESC; when x is ESC that second ESC
\* opens a fallback of its own and yields no Key, the first call returns the
\* Key of y alone and nothing stays pending.
C2_ReplayAmended ==
    UnmatchedPair =>
        IF input0[2].byte # ESC
        THEN ReplaysBoth(input0[2].byte, input0[3].byte)
        ELSE /\ IsPrefix(keys, <<SingleKey(input0[3].byte)>>)
             /\ Returned =>
                   /\ calls = 1
                   /\ keys = <<SingleKey(input0[3].byte)>>
                   /\ key_buffer = <<>>
                   /\ input = <<>>

\* C2 witness: ESC a CR has been replayed as Printable(a) and Newline
C2_Witness ==
    /\ input0 = EscSeq(<<CH_a, CR>>)
    /\ Returned
    /\ calls = 2
    /\ depth = 1
    /\ keys = <<Printable(CH_a), KeyNewline>>

\* the last two sequences handed to Terminal::write
LastTwoWrites == SubSeq(writes, Len(writes) - 1, Len(writes))

\* C3: once a constructed Terminal has been destroyed, whatever the exit path,
\* the last writes of the program are ESC[2J and then ESC[H, and when teardown
\* completes the OS holds the attributes captured at construction.
C3_TeardownRestores ==
    /\ pc \in {"dropped", "panicked"} =>
          /\ Len(writes) >= 2
          /\ LastTwoWrites = <<CLEAR_SCREEN, CURSOR_HOME>>
    /\ pc = "dropped" => os_termios = attr0

\* C3 witness: a Terminal in raw mode whose read_key returned an error has been
\* torn down and the captured attributes are back
C3_Witness ==
    /\ pc = "dropped"
    /\ ~result.ok
    /\ curr_termios # attr0
    /\ os_termios = attr0
    /\ LastTwoWrites = <<CLEAR_SCREEN, CURSOR_HOME>>

\* C4: orig_termios equals the attributes captured at construction in every
\* state of a constructed Terminal, whatever make_raw, append, flush and
\* read_key did, and a completed teardown leaves exactly them in the OS.
C4_OrigNeverMutated ==
    Constructed =>
        /\ orig_termios = attr0
        /\ pc = "dropped" => os_termios = orig_termios

\* C4 witness: raw mode was entered, text appended and flushed, a key read, and
\* the Terminal torn down: the OS is back on the captured attributes
C4_Witness ==
    /\ pc = "dropped"
    /\ calls > 0
    /\ ops > 1
    /\ flushed # <<>>
    /\ curr_termios = EnableRawMode(attr0)
    /\ curr_termios # attr0
    /\ orig_termios = attr0
    /\ os_termios = attr0

\* the direct query was degenerate and the probe ran with every write whole:
\* get_window_size is behind its call of get_cursor_position
ProbeDone ==
    /\ ~ws_ok \/ ws[2] = 0
    /\ pc \notin {"init", "probe"}
    /\ tty_out = BOTRIGHT \o CPR_QUERY \o CRLF

\* the reply ESC [ 2 4 ; 8 0 R
Reply2480 == ToItems(<<27, 91, 50, 52, 59, 56, 48, 82>>)

\* C5: when the direct query fails or reports zero columns and the terminal
\* answers the probe with ESC[24;80R, window-size resolution succeeds with
\* (24, 80), the values rows() and cols() return.
C5_ProbeReplyResolved ==
    (ProbeDone /\ input0 = Reply2480) =>
        /\ pc \notin {"new_panicked", "failed"}
        /\ num_rows = 24
        /\ num_cols = 80

\* the bytes of a reply up to its terminator R, or up to the end of the input
ReplyBody(inp) ==
    LET stop == {i \in 1..Len(inp) : inp[i].kind # "Ok" \/ inp[i].byte = CH_R}
        n == IF stop = {} THEN Len(inp)
             ELSE (CHOOSE i \in stop : \A j \in stop : i <= j) - 1
    IN [i \in 1..n |-> inp[i].byte]

\* the reply is ESC [ rows ; cols R with two decimal fields
WellFormedReply(inp) ==
    LET body == ReplyBody(inp)
    IN /\ Len(body) < Len(inp)
       /\ inp[Len(body) + 1] = OkByte(CH_R)
       /\ Len(body) >= 2
       /\ LET pieces == SplitOn(SubSeq(body, 3, Len(body)), SEMICOLON)
          IN /\ Len(pieces) = 2
             /\ Len(ParsedFields(pieces)) = 2

\* C6: on the probe path every reply that does not yield exactly two parsed
\* integers ends window-size resolution, and so Terminal::new, with an IoError
\* value and with nothing else.
C6_BadReplyIsIoError ==
    (ProbeDone /\ ~WellFormedReply(input0)) => pc = "failed"

\* C7: a read_key call that needs a fresh source byte and finds the input
\* stream ended returns a read failure to its caller; it does not poll on.
C7_EndedStreamFails ==
    [][(pc = "source" /\ key_buffer = <<>> /\ input = <<>>) =>
          (pc' = "ready" /\ ~result'.ok)]_vars

\* the attribute set the raw-mode transition is specified to apply for a
\* capture a: the listed bits cleared, the character size of the control flags
\* forced to 8 bits, VMIN = 0, VTIME = 1, the rest as in a
SpecifiedRaw(a) ==
    [a EXCEPT !.c_lflag = BitAndNot(a.c_lflag, LFlagMask),
              !.c_iflag = BitAndNot(a.c_iflag, IFlagMask),
              !.c_oflag = BitAndNot(a.c_oflag, OPOST),
              !.c_cflag = BitOr(a.c_cflag, CS8),
              !.c_cc = [a.c_cc EXCEPT ![VMIN] = 0, ![VTIME] = 1]]

\* C9: after a successful make_raw on the capture A the OS holds A with ECHO,
\* ICANON, ISIG, IEXTEN, IXON, ICRNL, BRKINT, INPCK, ISTRIP and OPOST cleared,
\* the character size of the control flags set to 8 bits, VMIN = 0, VTIME = 1
\* and every other bit and control character as in A.
C9_RawAttributes ==
    pc \in {"ready", "source", "escape"} => os_termios = SpecifiedRaw(attr0)

\* the Key listed for a source byte b other than ESC
ListedKey(b) ==
    IF b = 127 THEN KeyBackspace
    ELSE IF b = 13 THEN KeyNewline
    ELSE IF b < 32 THEN Control(b + 64)
    ELSE Printable(b)

\* C8: a source byte b other than ESC makes read_key return Backspace for 127,
\* Newline for 13, Control(b + 64) for the other bytes below 32 and
\* Printable(b) for the rest; when the first call reads it from the input, the
\* reads issued are the polls without data and the read that delivered b, no
\* lookahead read follows, and the pushback buffer gets no byte.
C8_DirectMapping ==
    (Returned /\ result.ok /\ key # ESC) =>
        /\ result = OkKey(ListedKey(key))
        /\ (calls = 1 /\ depth = 1) =>
              LET n == Len(input0) - Len(input)
              IN /\ reads = n
                 /\ n >= 1
                 /\ \A i \in 1..(n - 1) : input0[i] = NoData
                 /\ input0[n] = OkByte(key)
                 /\ key_buffer = <<>>

\* C8 witness: the byte 26 alone has been decoded as Control('Z') with one read
C8_Witness ==
    /\ Returned
    /\ input0 = <<OkByte(26)>>
    /\ result = OkKey(Control(90))
    /\ reads = 1
    /\ key_buffer = <<>>

\* C10: a read_key call during which a read of standard input failed returns
\* an IoError and no Key.
C10_ReadFailurePropagates ==
    (Returned /\ io_failed) =>
        /\ result = IoError
        /\ Len(keys) < calls

\* C10 witness: the read that failed was issued by the lookahead of a fallback
\* re-entry, and the call returned the error
C10_Witness ==
    /\ Returned
    /\ io_failed
    /\ depth >= 2
    /\ key = ESC
    /\ result = IoError

\* a step of flush: one more operation on the buffer, and nothing appended
FlushStep == ops' = ops + 1 /\ appended' = appended

\* C11: a flush whose OS write failed or was short (the terminal did not
\* receive the whole buffer) keeps the buffered content for the caller, who is
\* told of the error; it never discards content that was not written.
C11_FlushFailureSurfaced ==
    [][(FlushStep /\ tty_out' # tty_out \o term_buffer)
          => term_buffer' = term_buffer]_vars

\* C12: when re-applying the original attributes fails during teardown, the
\* teardown ends in a panic: in no state has the facade been destroyed with
\* a failed restore and the program gone on normally.
C12_FailedRestoreIsFatal ==
    (pc \in {"dropped", "panicked"} /\ restore = "err") => pc = "panicked"

\* a teardown whose set_attr failed, on a Terminal that had entered raw mode
C12_Witness ==
    /\ pc = "panicked"
    /\ restore = "err"
    /\ os_termios = curr_termios
    /\ os_termios # orig_termios

\* the escape sequences of the probe path
ProbeSequences == {BOTRIGHT, CPR_QUERY, CRLF}

\* C13: when the direct query succeeds with a non-zero column count, the
\* resolver returns exactly the queried (rows, cols) and takes no step of the
\* probe path: no probe sequence is handed to the terminal, and until the
\* Terminal is in use no byte of the input has been read and nothing written.
C13_DirectQueryOnly ==
    (ws_ok /\ ws[2] # 0 /\ pc # "init") =>
        /\ num_rows = ws[1]
        /\ num_cols = ws[2]
        /\ pc \notin {"probe", "new_panicked"}
        /\ \A i \in 1..Len(writes) : writes[i] \notin ProbeSequences
        /\ (pc \in {"getattr", "constructed", "failed", "raw_failed"}) =>
               (input = input0 /\ writes = <<>> /\ tty_out = <<>>)

\* the resolver has returned on the direct path, new goes on to get_attr
C13_Witness ==
    /\ pc = "getattr"
    /\ ws_ok
    /\ ws = <<40, 120>>
    /\ num_rows = 40
    /\ num_cols = 120
    /\ input # <<>>
    /\ input = input0
    /\ writes = <<>>

\* the first byte of the input is an ESC at position n, and the reads of the
\* lookahead window behind it find no byte
BareEscapeAt(n) ==
    /\ input0[n] = OkByte(ESC)
    /\ \A i \in 1..(n - 1) : input0[i] = NoData
    /\ \A i \in (n + 1)..Min(n + Window, Len(input0)) : input0[i] = NoData

\* C14: when read_key obtains ESC as its source byte and the three reads of
\* the lookahead window all yield no byte, the call returns Escape, consumes
\* the window only, and leaves the pushback buffer empty.
C14_BareEscape ==
    \A n \in 1..Len(input0) :
        (BareEscapeAt(n) /\ Returned /\ calls = 1) =>
            /\ result = OkKey(KeyEscape)
            /\ keys = <<KeyEscape>>
            /\ key_buffer = <<>>
            /\ input = SubSeq(input0, Min(n + Window, Len(input0)) + 1,
                              Len(input0))

\* ESC, two timeouts, then the ended input: Escape, nothing pending
C14_Witness ==
    /\ input0 = <<OkByte(ESC), NoData, NoData>>
    /\ Returned
    /\ calls = 1
    /\ result = OkKey(KeyEscape)
    /\ key_buffer = <<>>
    /\ input = <<>>

\* a step of append: one more operation on the buffer, and a text appended
AppendStep == ops' = ops + 1 /\ appended' # appended

ReturnedMatch == Returned /\ key = ESC /\ result.ok

\* after a table match the pushback buffer holds the trailing pending byte
\* at most
MatchLeavesOnlyPending == ReturnedMatch => Len(key_buffer) <= 1

\* on ESC ESC [ A the bytes of the matched sequence are not returned again
MatchedBytesNotReplayed ==
    input0 = EscSeq(<<ESC, LBRACKET, CH_A>>) => IsPrefix(keys, <<Move("Up")>>)

\* C16: pending bytes that fill the lookahead window of an ESC are removed
\* from the pushback buffer: after a table match the buffer holds nothing but
\* the optional trailing pending byte, and no byte of the matched sequence is
\* returned again as a key (ESC ESC [ A gives Up and nothing else).
C16_LookaheadConsumes == MatchLeavesOnlyPending /\ MatchedBytesNotReplayed

\* the bytes read from the standard input so far, in arrival order
ConsumedBytes == PresentBytes(SubSeq(input0, 1, Len(input0) - Len(input)))

\* the order in which successive pops yield the pending bytes
PopOrder == Rev(key_buffer)

\* C17: between read_key calls the pops of the pushback buffer yield the
\* pending bytes in arrival order, oldest first, and ahead of every byte read
\* later: the pending bytes are the bytes read last, in the order read.
C17_PendingInArrivalOrder ==
    (Returned /\ result.ok) =>
        /\ Len(PopOrder) <= Len(ConsumedBytes)
        /\ PopOrder = SubSeq(ConsumedBytes,
                             Len(ConsumedBytes) - Len(PopOrder) + 1,
                             Len(ConsumedBytes))

\* C18 as stated: whenever a read_key call returns, the pushback buffer holds
\* at most one byte.
C18_AtMostOnePending == Returned => Len(key_buffer) <= 1

\* C18 amended: the pushback buffer never holds more bytes than the lookahead
\* window has slots, and two or three bytes can be pending when a call returns.
C18_AtMostWindowPending == Len(key_buffer) <= Window

\* ESC a a a: the window matches nothing, the first replayed byte is returned
\* and the two others are pending
C18_Witness ==
    /\ Returned
    /\ calls = 1
    /\ input0 = EscSeq(<<CH_a, CH_a, CH_a>>)
    /\ keys = <<Printable(CH_a)>>
    /\ key_buffer = <<CH_a, CH_a>>

\* the slots of the first lookahead window, as far as the input goes
WindowItems == SubSeq(input0, 2, Min(1 + Window, Len(input0)))

\* the bytes read behind the first ESC, absent slots skipped
PostEsc == PresentBytes(WindowItems)

\* a window of three slots: the ended input fills the last ones with None
Padded(w) == w \o [i \in 1..(Window - Len(w)) |-> NoData]

\* the input opens with ESC and a window without read failure that holds a
\* byte and matches no table entry
UnmatchedWindow ==
    /\ Len(input0) >= 2
    /\ input0[1] = OkByte(ESC)
    /\ \A i \in 1..Len(WindowItems) : WindowItems[i].kind # "Err"
    /\ PostEsc # <<>>
    /\ ~MatchSeq(Padded(WindowItems)).matched

\* C19 as stated: an unmatched window with at least one byte makes the call
\* return the single-byte decoding of the first post-ESC byte, the other
\* post-ESC bytes staying pending in arrival order.
C19_FallbackDecodesFirst ==
    (UnmatchedWindow /\ Returned /\ calls = 1) =>
        /\ keys = <<SingleKey(PostEsc[1])>>
        /\ key_buffer = Rev(Tail(PostEsc))

\* the fallback arm is taken: read_key re-enters itself
FallbackStep == pc = "escape" /\ pc' = "source"

\* C19 amended: the fallback step returns no key and replaces the pushback
\* buffer by the bytes of the window (pending bytes first, then the bytes
\* just read, absent slots skipped), never leaving it empty; the re-entered
\* read_key pops the first of them and, when it is not ESC, returns its
\* single-byte decoding with the others pending; a replayed ESC is popped as
\* an escape prefix and opens a lookahead of its own instead of being
\* returned.
C19_FallbackAmended ==
    [][/\ FallbackStep =>
            /\ keys' = keys
            /\ key_buffer' # <<>>
            /\ Rev(key_buffer') =
                   SubSeq(Rev(key_buffer), 1, Min(Window, Len(key_buffer)))
                   \o PresentBytes(SubSeq(input, 1, Len(input) - Len(input')))
       /\ (pc = "source" /\ depth > 1) =>
            /\ key_buffer # <<>>
            /\ key' = key_buffer[Len(key_buffer)]
            /\ key_buffer' = SubSeq(key_buffer, 1, Len(key_buffer) - 1)
            /\ input' = input
            /\ IF key' # ESC
               THEN /\ pc' = "ready"
                    /\ result' = OkKey(DecodeByte(key'))
                    /\ keys' = Append(keys, DecodeByte(key'))
               ELSE /\ pc' = "escape"
                    /\ keys' = keys
      ]_vars

\* ESC, a timeout, then a and [: the window is replayed without the absent
\* slot and the first call has returned Printable(a) with [ pending
C19_Witness ==
    /\ input0 =
           <<OkByte(ESC), NoData, OkByte(CH_a), OkByte(LBRACKET), ReadErr>>
    /\ Returned
    /\ calls = 1
    /\ depth = 2
    /\ keys = <<Printable(CH_a)>>
    /\ key_buffer = <<LBRACKET>>

\* no read of the standard input fails: bytes and timeouts, then the end
NoReadFailure == \A i \in 1..Len(input0) : input0[i].kind # "Err"

\* the running read_key call holds a source byte and has not returned yet
SourceObtained == pc = "escape" \/ (pc = "source" /\ depth > 1)

\* a read_key call has returned a key
ReturnedKey == pc = "ready" /\ result.ok /\ result.key # NoKey

\* C20: on an input without read failure, every read_key call that obtains
\* a source byte returns a key; the nesting depth of the fallback re-entry
\* never exceeds the number of bytes read from the input.
C20_ReadKeyTerminates ==
    /\ [](NoReadFailure => depth <= Len(ConsumedBytes) + 1)
    /\ []((NoReadFailure /\ SourceObtained) => depth <= Len(ConsumedBytes))
    /\ (NoReadFailure /\ SourceObtained) ~> ReturnedKey

\* ESC ESC ESC: two re-entries, then the last ESC alone is returned as Escape
C20_Witness ==
    /\ input0 = EscSeq(<<ESC, ESC>>)
    /\ Returned
    /\ calls = 1
    /\ depth = 3
    /\ result = OkKey(KeyEscape)
    /\ key_buffer = <<>>

====
